---- MODULE Spec2Model ----
(***************************************************************************)
(* Model of the repository layer of my-todo:                               *)
(*   src/src/repositories/todo.rs   TodoRepositoryForMemory / ForDb        *)
(*   src/src/repositories/label.rs  LabelRepositoryForMemory / ForDb       *)
(*                                                                         *)
(* Option<T> is modelled as a sequence of length <= 1: None == <<>>,        *)
(* Some(v) == <<v>>.  A HashMap is a function whose DOMAIN is its key set.  *)
(* anyhow::Result is a record [kind, id, todos, labels]: kind is "Ok" or    *)
(* the RepositoryError variant, id the variant's argument, todos / labels   *)
(* the returned entities (a single entity is a one-element sequence).       *)
(***************************************************************************)
EXTENDS Integers, Sequences, FiniteSets, TLC

\* ---------------------------------------------------------------- bounds
MaxTodos == 2
MaxLabels == 3
MaxDbTodos == 2
MaxDbLabels == 2
NumClients == 2
MaxRows == 3

\* ------------------------------------------------------- input universes
Texts == {"a", "b"}
Names == {"work", "home"}
TodoIds == 1..(MaxTodos + 1)
LabelKeys == 1..(MaxLabels + 1)
DbTodoIds == 1..(MaxDbTodos + 1)
DbLabelIds == 1..(MaxDbLabels + 1)
Clients == 1..NumClients

None == <<>>
Some(v) == <<v>>

Label_new(id, name) == [id |-> id, name |-> name]

\* the label snapshots a TodoRepositoryForMemory is built over
Snapshots == {<<Label_new(2, "home"), Label_new(1, "work")>>}

\* the label_ids of the payloads: none, a label found behind another one in
\* the snapshot, an id that resolves to no label
LabelIdSeqs == {<<>>, <<1>>, <<3>>}

CreateTodo == [text : Texts, label_ids : LabelIdSeqs]

UpdateTodo == [text : {None} \cup {Some(t) : t \in Texts},
               completed : {None} \cup {Some(b) : b \in BOOLEAN},
               label_ids : {None} \cup {Some(s) : s \in LabelIdSeqs}]

NoCreate == [text |-> "", label_ids |-> <<>>]
NoUpdate == [text |-> None, completed |-> None, label_ids |-> None]
NoTodo == [id |-> 0, text |-> "", completed |-> FALSE, labels |-> <<>>]

\* ------------------------------------------------------------- variables
VARIABLES
    store,      \* TodoRepositoryForMemory.store : HashMap<i32, TodoEntity>
    labels,     \* TodoRepositoryForMemory.labels : Vec<Label> (fixed)
    data,       \* LabelRepositoryForMemory.data : HashMap<i32, Label>
    issued,     \* the ids TodoRepositoryForMemory::create has returned so far
    last,       \* the last call on an in-memory repository and what it returned
    t_todos,        \* table todos(id, text, completed)
    t_labels,       \* table labels(id, name)
    t_todo_labels,  \* table todo_labels(todo_id, label_id), in heap order
    todos_id_seq,   \* last id the database generated for todos
    labels_id_seq,  \* last id the database generated for labels
    pc,         \* per client: the statement its call on the database is at
    cur,        \* per client: the call in progress and its local variables; when
                \* pc is "idle", the call that returned last and its result
    f_rows,     \* fold_entities: the argument `rows`
    f_rest,     \* fold_entities: the rows the fold has not visited yet
    f_acc,      \* fold_entities: the accumulator `acc`; the result once f_pc is "done"
    f_pc,       \* fold_entities: "idle", "fold", "done" (returned), "panic" (unwound)
    guard,      \* the RwLock of each in-memory repository: the client holding the
                \* write guard (0: none) and the clients holding a read guard
    lin         \* the Todo store as the calls returned so far leave it when run
                \* one after the other in the order of their returns

memvars == <<store, labels, data, issued, last>>
dbvars == <<t_todos, t_labels, t_todo_labels, todos_id_seq, labels_id_seq, pc, cur>>
foldvars == <<f_rows, f_rest, f_acc, f_pc>>
concvars == <<guard, lin>>
vars == <<store, labels, data, issued, last, t_todos, t_labels, t_todo_labels,
          todos_id_seq, labels_id_seq, pc, cur, f_rows, f_rest, f_acc, f_pc, guard, lin>>

\* --------------------------------------------------------------- results
Result(kind, id, todos, ls) == [kind |-> kind, id |-> id, todos |-> todos, labels |-> ls]
OkTodo(todo) == Result("Ok", 0, <<todo>>, <<>>)
OkTodos(todos) == Result("Ok", 0, todos, <<>>)
OkLabel(label) == Result("Ok", 0, <<>>, <<label>>)
OkLabels(ls) == Result("Ok", 0, <<>>, ls)
OkUnit == Result("Ok", 0, <<>>, <<>>)
NotFound(id) == Result("NotFound", id, <<>>, <<>>)
Duplicate(id) == Result("Duplicate", id, <<>>, <<>>)
Unexpected == Result("Unexpected", 0, <<>>, <<>>)
\* a sqlx::Error passed on by `?` without map_err
SqlxError == Result("SqlxError", 0, <<>>, <<>>)

Call(op, id, c, u, name, res) ==
    [op |-> op, id |-> id, create |-> c, update |-> u, name |-> name, res |-> res]

\* ------------------------------------------------------- HashMap helpers
insert(m, k, v) == [x \in (DOMAIN m) \cup {k} |-> IF x = k THEN v ELSE m[x]]
remove(m, k) == [x \in (DOMAIN m) \ {k} |-> m[x]]
len(m) == Cardinality(DOMAIN m)
EmptyMap == [x \in {} |-> 0]

\* every ordering of the values of a HashMap (iteration order is unspecified)
Orderings(m) ==
    {s \in [1..len(m) -> DOMAIN m] : \A i, j \in 1..len(m) : i # j => s[i] # s[j]}
values(m, ord) == [i \in 1..len(m) |-> m[ord[i]]]

\* ------------------------------------------ TodoRepositoryForMemory (pure)
TodoEntity_new(id, text, ls) == [id |-> id, text |-> text, completed |-> FALSE, labels |-> ls]

RECURSIVE find_label(_, _)
find_label(ls, id) ==
    IF ls = <<>> THEN None
    ELSE IF Head(ls).id = id THEN Some(Head(ls))
    ELSE find_label(Tail(ls), id)

RECURSIVE resolve_labels(_, _)
resolve_labels(ls, label_ids) ==
    IF label_ids = <<>> THEN <<>>
    ELSE find_label(ls, Head(label_ids)) \o resolve_labels(ls, Tail(label_ids))

TodoMem_create_snaporder(st, ls, payload) ==
    LET id == len(st) + 1
        wanted == {payload.label_ids[i] : i \in DOMAIN payload.label_ids}
        todo == TodoEntity_new(id, payload.text, SelectSeq(ls, LAMBDA l : l.id \in wanted))
    IN [store |-> insert(st, id, todo), res |-> OkTodo(todo)]

TodoMem_create_keyoff(st, ls, payload) ==
    LET id == len(st) + 1
        todo == TodoEntity_new(id, payload.text, resolve_labels(ls, payload.label_ids))
    IN [store |-> insert(st, len(st), todo), res |-> OkTodo(todo)]

TodoMem_create(st, ls, payload) ==
    LET id == len(st) + 1
        todo == TodoEntity_new(id, payload.text, resolve_labels(ls, payload.label_ids))
    IN [store |-> insert(st, id, todo), res |-> OkTodo(todo)]

TodoMem_find(st, id) ==
    IF id \in DOMAIN st THEN OkTodo(st[id]) ELSE NotFound(id)

TodoMem_all_first(st, ord) == OkTodos([i \in 1..len(st) |-> st[ord[1]]])

TodoMem_all(st, ord) == OkTodos(values(st, ord))

TodoMem_update_reset(st, ls, id, payload) ==
    IF id \notin DOMAIN st THEN [store |-> st, res |-> NotFound(id)]
    ELSE LET todo == st[id]
             text == IF payload.text = None THEN todo.text ELSE payload.text[1]
             lbls == IF payload.label_ids = None THEN todo.labels
                     ELSE resolve_labels(ls, payload.label_ids[1])
             new == [id |-> id, text |-> text,
                     completed |-> (payload.completed = Some(TRUE)), labels |-> lbls]
         IN [store |-> insert(st, id, new), res |-> OkTodo(new)]

TodoMem_update_keep(st, ls, id, payload) ==
    IF id \notin DOMAIN st THEN [store |-> st, res |-> NotFound(id)]
    ELSE LET todo == st[id]
             text == IF payload.text = None THEN todo.text ELSE payload.text[1]
             completed == IF payload.completed = None THEN todo.completed
                          ELSE payload.completed[1]
             lbls == IF payload.label_ids \in {None, Some(<<>>)} THEN todo.labels
                     ELSE resolve_labels(ls, payload.label_ids[1])
             new == [id |-> id, text |-> text, completed |-> completed, labels |-> lbls]
         IN [store |-> insert(st, id, new), res |-> OkTodo(new)]

TodoMem_update_upsert(st, ls, id, payload) ==
    LET text == IF payload.text # None THEN payload.text[1]
                ELSE IF id \in DOMAIN st THEN st[id].text ELSE ""
        completed == IF payload.completed # None THEN payload.completed[1]
                     ELSE IF id \in DOMAIN st THEN st[id].completed ELSE FALSE
        lbls == IF payload.label_ids # None THEN resolve_labels(ls, payload.label_ids[1])
                ELSE IF id \in DOMAIN st THEN st[id].labels ELSE <<>>
        new == [id |-> id, text |-> text, completed |-> completed, labels |-> lbls]
    IN [store |-> insert(st, id, new), res |-> OkTodo(new)]

TodoMem_update(st, ls, id, payload) ==
    IF id \notin DOMAIN st THEN [store |-> st, res |-> NotFound(id)]
    ELSE LET todo == st[id]
             text == IF payload.text = None THEN todo.text ELSE payload.text[1]
             completed == IF payload.completed = None THEN todo.completed
                          ELSE payload.completed[1]
             lbls == IF payload.label_ids = None THEN todo.labels
                     ELSE resolve_labels(ls, payload.label_ids[1])
             new == [id |-> id, text |-> text, completed |-> completed, labels |-> lbls]
         IN [store |-> insert(st, id, new), res |-> OkTodo(new)]

TodoMem_delete_clear(st, id) ==
    IF id \in DOMAIN st THEN [store |-> EmptyMap, res |-> OkUnit]
    ELSE [store |-> st, res |-> NotFound(id)]

TodoMem_delete(st, id) ==
    IF id \in DOMAIN st THEN [store |-> remove(st, id), res |-> OkUnit]
    ELSE [store |-> st, res |-> NotFound(id)]

\* ----------------------------------------- LabelRepositoryForMemory (pure)
LabelMem_create(d, name) ==
    LET id == len(d) + 1
        label == Label_new(id, name)
    IN [data |-> insert(d, id, label), res |-> OkLabel(label)]

LabelMem_all(d, ord) == OkLabels(values(d, ord))

LabelMem_delete_strict(d, id) ==
    IF id \in DOMAIN d THEN [data |-> remove(d, id), res |-> OkUnit]
    ELSE [data |-> d, res |-> NotFound(id)]

LabelMem_delete(d, id) == [data |-> remove(d, id), res |-> OkUnit]

\* ------------------------------------------------------------- RwLock
\* Arc<RwLock<..>>: one lock per in-memory repository
Repos == {"todo", "label"}
FreeGuard == [writer |-> 0, readers |-> {}]
FreeGuards == [r \in Repos |-> FreeGuard]

\* RwLock::write blocks while any guard is out, RwLock::read while the write
\* guard is out
CanWrite_any(g) == TRUE

CanWrite(g) == g.writer = 0 /\ g.readers = {}

CanRead_any(g) == TRUE

CanRead(g) == g.writer = 0

lock_write(g, p) == [g EXCEPT !.writer = p]
lock_read(g, p) == [g EXCEPT !.readers = @ \cup {p}]

\* a guard is dropped when the call that took it returns
drop(g, p) == [writer |-> IF g.writer = p THEN 0 ELSE g.writer, readers |-> g.readers \ {p}]

\* ------------------------------------------------------------------ Init
\* at: the statement at which the call returned; res: what it returned
IdleCur ==
    [op |-> "", id |-> 0, create |-> NoCreate, update |-> NoUpdate, name |-> "",
     row_id |-> 0, old_todo |-> NoTodo, at |-> "", res |-> OkUnit]

InitCommon ==
    /\ store = EmptyMap
    /\ data = EmptyMap
    /\ issued = {}
    /\ last = Call("new", 0, NoCreate, NoUpdate, "", OkUnit)
    /\ t_todos = {}
    /\ t_todo_labels = <<>>
    /\ todos_id_seq = 0
    /\ pc = [p \in Clients |-> "idle"]
    /\ cur = [p \in Clients |-> IdleCur]
    /\ f_rows = <<>>
    /\ f_rest = <<>>
    /\ f_acc = <<>>
    /\ f_pc = "idle"
    /\ guard = FreeGuards
    /\ lin = EmptyMap

\* the in-memory repositories, the Todo one built over some label snapshot
Init ==
    /\ InitCommon
    /\ labels \in Snapshots
    /\ t_labels = {}
    /\ labels_id_seq = 0

\* the relational repositories over a database without todos and labels
InitDb ==
    /\ InitCommon
    /\ labels = <<>>
    /\ t_labels = {}
    /\ labels_id_seq = 0

\* the relational repositories over a database that holds labels already
DbLabelTables == {{Label_new(1, "work")}, {Label_new(1, "work"), Label_new(2, "home")}}

InitTodoDb ==
    /\ InitCommon
    /\ labels = <<>>
    /\ t_labels \in DbLabelTables
    /\ labels_id_seq = 2

\* --------------------------------------- TodoRepositoryForMemory actions
TodoCreate(payload) ==
    /\ len(store) < MaxTodos
    /\ LET r == TodoMem_create(store, labels, payload) IN
        /\ store' = r.store
        /\ issued' = issued \cup {r.res.todos[1].id}
        /\ last' = Call("create", 0, payload, NoUpdate, "", r.res)
    /\ UNCHANGED <<labels, data, dbvars, foldvars, concvars>>

TodoFind(id) ==
    /\ last' = Call("find", id, NoCreate, NoUpdate, "", TodoMem_find(store, id))
    /\ UNCHANGED <<store, labels, data, issued, dbvars, foldvars, concvars>>

TodoAll ==
    /\ \E ord \in Orderings(store) :
        last' = Call("all", 0, NoCreate, NoUpdate, "", TodoMem_all(store, ord))
    /\ UNCHANGED <<store, labels, data, issued, dbvars, foldvars, concvars>>

TodoUpdate(id, payload) ==
    /\ LET r == TodoMem_update(store, labels, id, payload) IN
        /\ store' = r.store
        /\ last' = Call("update", id, NoCreate, payload, "", r.res)
    /\ UNCHANGED <<labels, data, issued, dbvars, foldvars, concvars>>

TodoDelete(id) ==
    /\ LET r == TodoMem_delete(store, id) IN
        /\ store' = r.store
        /\ last' = Call("delete", id, NoCreate, NoUpdate, "", r.res)
    /\ UNCHANGED <<labels, data, issued, dbvars, foldvars, concvars>>

\* -------------------------------------- LabelRepositoryForMemory actions
LabelCreate(name) ==
    /\ len(data) < MaxLabels
    /\ LET r == LabelMem_create(data, name) IN
        /\ data' = r.data
        /\ last' = Call("label_create", 0, NoCreate, NoUpdate, name, r.res)
    /\ UNCHANGED <<store, labels, issued, dbvars, foldvars, concvars>>

LabelAll ==
    /\ \E ord \in Orderings(data) :
        last' = Call("label_all", 0, NoCreate, NoUpdate, "", LabelMem_all(data, ord))
    /\ UNCHANGED <<store, labels, data, issued, dbvars, foldvars, concvars>>

LabelDelete(id) ==
    /\ LET r == LabelMem_delete(data, id) IN
        /\ data' = r.data
        /\ last' = Call("label_delete", id, NoCreate, NoUpdate, "", r.res)
    /\ UNCHANGED <<store, labels, issued, dbvars, foldvars, concvars>>

NextTodoMem ==
    \/ \E payload \in CreateTodo : TodoCreate(payload)
    \/ \E id \in TodoIds : TodoFind(id)
    \/ TodoAll
    \/ \E id \in TodoIds, payload \in UpdateTodo : TodoUpdate(id, payload)
    \/ \E id \in TodoIds : TodoDelete(id)

SpecTodoMem == Init /\ [][NextTodoMem]_vars

NextLabelMem ==
    \/ \E name \in Names : LabelCreate(name)
    \/ LabelAll
    \/ \E id \in LabelKeys : LabelDelete(id)

SpecLabelMem == Init /\ [][NextLabelMem]_vars

\* Both in-memory repositories side by side, as create_app wires them up.
\* Updates are drawn from the payloads that replace the labels only.
LabelUpdates == {u \in UpdateTodo : u.text = None /\ u.completed = None}

NextMem ==
    \/ \E payload \in CreateTodo : TodoCreate(payload)
    \/ \E id \in TodoIds : TodoFind(id)
    \/ TodoAll
    \/ \E id \in TodoIds, payload \in LabelUpdates : TodoUpdate(id, payload)
    \/ \E name \in Names : LabelCreate(name)
    \/ \E id \in LabelKeys : LabelDelete(id)

SpecMem == Init /\ [][NextMem]_vars

\* The in-memory Todo repository under payloads that name several labels:
\* both orders of the snapshot's ids, an unresolvable id among resolvable
\* ones, one id twice.
WideLabelIdSeqs == {<<>>, <<1>>, <<1, 2>>, <<2, 1>>, <<3, 1>>, <<1, 1>>}

WideCreates == [text : Texts, label_ids : WideLabelIdSeqs]

WideLabelUpdates ==
    [text : {None}, completed : {None},
     label_ids : {None} \cup {Some(s) : s \in WideLabelIdSeqs}]

NextTodoLabels ==
    \/ \E payload \in WideCreates : TodoCreate(payload)
    \/ \E id \in TodoIds, payload \in WideLabelUpdates : TodoUpdate(id, payload)

SpecTodoLabels == Init /\ [][NextTodoLabels]_vars

\* ========================================================================
\* Relational repositories (TodoRepositoryForDb, LabelRepositoryForDb)
\*
\* Every awaited statement is one step of a client.  All statements are
\* executed on &self.pool, i.e. on a pooled connection in autocommit mode, so
\* each one takes effect on the committed tables at once; the transaction
\* `tx` opened by pool.begin() never receives a statement, and its commit
\* (or its rollback when it is dropped on an early return) changes nothing.
\* Any statement can fail (ok = FALSE): a backend or constraint error.
\* ========================================================================
\* ------------------------------------------------------ SQL statements
select_labels_by_name_neq(tbl, name) == {l \in tbl : l.name # name}

select_labels_by_name(tbl, name) == {l \in tbl : l.name = name}

\* an INSERT under a unique index on labels.name
insert_label_unique(tbl, seq, name) ==
    IF \E l \in tbl : l.name = name
    THEN [rows |-> tbl, seq |-> seq + 1,
          row |-> CHOOSE l \in tbl : l.name = name]
    ELSE LET label == Label_new(seq + 1, name)
         IN [rows |-> tbl \cup {label}, seq |-> seq + 1, row |-> label]

insert_label(tbl, seq, name) ==
    LET label == Label_new(seq + 1, name)
    IN [rows |-> tbl \cup {label}, seq |-> seq + 1, row |-> label]

RECURSIVE select_labels_order_by_id(_)
select_labels_order_by_id(tbl) ==
    IF tbl = {} THEN <<>>
    ELSE LET m == CHOOSE l \in tbl : \A o \in tbl : l.id <= o.id
         IN <<m>> \o select_labels_order_by_id(tbl \ {m})

delete_label(tbl, id) == {l \in tbl : l.id # id}

insert_todo(tbl, seq, text) ==
    LET row == [id |-> seq + 1, text |-> text, completed |-> FALSE]
    IN [rows |-> tbl \cup {row}, seq |-> seq + 1, row |-> row]

insert_todo_labels(tl, todo_id, label_ids) ==
    tl \o [i \in 1..Len(label_ids) |-> [todo_id |-> todo_id, label_id |-> label_ids[i]]]

IsOtherTodo_label(r, todo_id) == r.label_id # todo_id

IsOtherTodo(r, todo_id) == r.todo_id # todo_id

delete_todo_labels(tl, todo_id) ==
    SelectSeq(tl, LAMBDA r : IsOtherTodo(r, todo_id))

update_todo(tbl, id, text, completed) ==
    {IF r.id = id THEN [id |-> id, text |-> text, completed |-> completed] ELSE r : r \in tbl}

delete_todo(tbl, id) == {r \in tbl : r.id # id}

\* ------------------------------------------- the joined query and its fold
TodoWithLabelFromRow(t, label_id, label_name) ==
    [id |-> t.id, text |-> t.text, completed |-> t.completed,
     label_id |-> label_id, label_name |-> label_name]

\* One key per row of `todos left outer join todo_labels`: <<todo id, index
\* of the todo_labels row>>, index 0 for a todo without associations.
JoinKeys(todos, tl) ==
    {<<t.id, 0>> : t \in {u \in todos : \A i \in DOMAIN tl : tl[i].todo_id # u.id}}
    \cup {<<tl[i].todo_id, i>> :
            i \in {j \in DOMAIN tl : \E t \in todos : t.id = tl[j].todo_id}}

\* the row of a key, after `left outer join labels on labels.id = tl.label_id`
JoinRow(todos, tl, lbls, k) ==
    LET t == CHOOSE u \in todos : u.id = k[1]
        ls == IF k[2] = 0 THEN {} ELSE {l \in lbls : l.id = tl[k[2]].label_id}
    IN IF ls = {} THEN TodoWithLabelFromRow(t, None, None)
       ELSE LET l == CHOOSE x \in ls : TRUE
            IN TodoWithLabelFromRow(t, Some(l.id), Some(l.name))

\* The orders in which the database may return the rows K: any order for a
\* query without ORDER BY, any order that is descending by todo id for
\* `order by todos.id desc`.
QueryOrders(K, desc) ==
    {s \in [1..Cardinality(K) -> K] :
        /\ \A i, j \in 1..Cardinality(K) : i # j => s[i] # s[j]
        /\ desc => \A i, j \in 1..Cardinality(K) : i < j => s[i][1] >= s[j][1]}

JoinRows(todos, tl, lbls, ord) ==
    [i \in 1..Len(ord) |-> JoinRow(todos, tl, lbls, ord[i])]

FirstWithId(acc, id) ==
    LET hit == {i \in 1..Len(acc) : acc[i].id = id}
    IN IF hit = {} THEN 0 ELSE CHOOSE i \in hit : \A j \in hit : i <= j

\* cur.label_name.clone().unwrap() runs only under `if let Some(label_id)`:
\* it panics on a row with a label_id and no label_name
fold_panics_strict(row) == row.label_name = None

fold_panics(row) == row.label_id # None /\ row.label_name = None

fold_step_last(acc, row) ==
    LET i == IF acc # <<>> /\ acc[Len(acc)].id = row.id THEN Len(acc) ELSE 0
        found == IF row.label_id = None THEN <<>>
                 ELSE <<Label_new(row.label_id[1], row.label_name[1])>>
    IN IF i # 0 THEN [acc EXCEPT ![i].labels = @ \o found]
       ELSE Append(acc, [id |-> row.id, text |-> row.text,
                         completed |-> row.completed, labels |-> found])

fold_step_overwrite(acc, row) ==
    LET i == FirstWithId(acc, row.id)
        found == IF row.label_id = None THEN <<>>
                 ELSE <<Label_new(row.label_id[1], row.label_name[1])>>
    IN IF i # 0 THEN [acc EXCEPT ![i].labels = @ \o found, ![i].text = row.text]
       ELSE Append(acc, [id |-> row.id, text |-> row.text,
                         completed |-> row.completed, labels |-> found])

fold_step_dedup(acc, row) ==
    LET i == FirstWithId(acc, row.id)
        found == IF row.label_id = None THEN <<>>
                 ELSE <<Label_new(row.label_id[1], row.label_name[1])>>
    IN IF i # 0
       THEN IF \E j \in 1..Len(acc[i].labels) : <<acc[i].labels[j]>> = found
            THEN acc
            ELSE [acc EXCEPT ![i].labels = @ \o found]
       ELSE Append(acc, [id |-> row.id, text |-> row.text,
                         completed |-> row.completed, labels |-> found])

fold_step(acc, row) ==
    LET i == FirstWithId(acc, row.id)
        found == IF row.label_id = None THEN <<>>
                 ELSE <<Label_new(row.label_id[1], row.label_name[1])>>
    IN IF i # 0 THEN [acc EXCEPT ![i].labels = @ \o found]
       ELSE Append(acc, [id |-> row.id, text |-> row.text,
                         completed |-> row.completed, labels |-> found])

RECURSIVE fold_from(_, _)
fold_from(acc, rows) ==
    IF rows = <<>> THEN acc ELSE fold_from(fold_step(acc, Head(rows)), Tail(rows))

fold_entities(rows) == fold_from(<<>>, rows)

FindKeys(todos, tl, id) == {k \in JoinKeys(todos, tl) : k[1] = id}

TodoDb_find(todos, tl, lbls, id, ord) ==
    LET found == fold_entities(JoinRows(todos, tl, lbls, ord))
    IN IF found = <<>> THEN NotFound(id) ELSE OkTodo(found[1])

TodoDb_all_nofold(todos, tl, lbls, ord) ==
    LET rows == JoinRows(todos, tl, lbls, ord)
    IN OkTodos([i \in 1..Len(rows) |->
                  [id |-> rows[i].id, text |-> rows[i].text,
                   completed |-> rows[i].completed, labels |-> <<>>]])

TodoDb_all(todos, tl, lbls, ord) ==
    OkTodos(fold_entities(JoinRows(todos, tl, lbls, ord)))

\* ------------------------------------------------------- control helpers
\* the call returns: its local variables (and the payload it owned) are gone
Return(p, c, at, res) ==
    /\ pc' = [pc EXCEPT ![p] = "idle"]
    /\ cur' = [cur EXCEPT ![p] = [IdleCur EXCEPT !.op = c.op, !.id = c.id,
                                    !.name = c.name, !.at = at, !.res = res]]

Goto(p, c, next) ==
    /\ pc' = [pc EXCEPT ![p] = next]
    /\ cur' = [cur EXCEPT ![p] = c]

\* ------------------------------------------------- LabelRepositoryForDb
LabelDbCreate_Select(p, name, ok) ==
    /\ pc[p] = "idle"
    /\ LET c == [IdleCur EXCEPT !.op = "db_label_create", !.name = name]
           found == select_labels_by_name(t_labels, name)
       IN /\ (ok /\ found = {}) => labels_id_seq < MaxDbLabels
          /\ IF ~ok THEN Return(p, c, "select", SqlxError)
             ELSE IF found # {}
                  THEN \E label \in found : Return(p, c, "select", Duplicate(label.id))
                  ELSE Goto(p, c, "lc_insert")
    /\ UNCHANGED <<t_todos, t_labels, t_todo_labels, todos_id_seq, labels_id_seq, memvars, foldvars, concvars>>

LabelDbCreate_Insert(p, ok) ==
    /\ pc[p] = "lc_insert"
    /\ IF ok
       THEN LET r == insert_label(t_labels, labels_id_seq, cur[p].name)
            IN /\ t_labels' = r.rows
               /\ labels_id_seq' = r.seq
               /\ Return(p, cur[p], "insert", OkLabel(r.row))
       ELSE /\ Return(p, cur[p], "insert", SqlxError)
            /\ UNCHANGED <<t_labels, labels_id_seq>>
    /\ UNCHANGED <<t_todos, t_todo_labels, todos_id_seq, memvars, foldvars, concvars>>

LabelDbAll(p, ok) ==
    /\ pc[p] = "idle"
    /\ LET c == [IdleCur EXCEPT !.op = "db_label_all"]
       IN IF ok THEN Return(p, c, "select", OkLabels(select_labels_order_by_id(t_labels)))
          ELSE Return(p, c, "select", SqlxError)
    /\ UNCHANGED <<t_todos, t_labels, t_todo_labels, todos_id_seq, labels_id_seq, memvars, foldvars, concvars>>

LabelDbDelete(p, id, ok) ==
    /\ pc[p] = "idle"
    /\ LET c == [IdleCur EXCEPT !.op = "db_label_delete", !.id = id]
       IN IF ok THEN /\ t_labels' = delete_label(t_labels, id)
                     /\ Return(p, c, "delete", OkUnit)
          ELSE /\ Return(p, c, "delete", Unexpected)
               /\ UNCHANGED t_labels
    /\ UNCHANGED <<t_todos, t_todo_labels, todos_id_seq, labels_id_seq, memvars, foldvars, concvars>>

\* -------------------------------------------------- TodoRepositoryForDb
\* create: begin; insert into todos; insert into todo_labels; commit; find
TodoDbCreate_Begin(p, payload, ok) ==
    /\ pc[p] = "idle"
    /\ todos_id_seq < MaxDbTodos
    /\ LET c == [IdleCur EXCEPT !.op = "db_create", !.create = payload]
       IN IF ok THEN Goto(p, c, "tc_insert_todo")
          ELSE Return(p, c, "begin", SqlxError)
    /\ UNCHANGED <<t_todos, t_labels, t_todo_labels, todos_id_seq, labels_id_seq, memvars, foldvars, concvars>>

TodoDbCreate_InsertTodo(p, ok) ==
    /\ pc[p] = "tc_insert_todo"
    /\ IF ok
       THEN LET r == insert_todo(t_todos, todos_id_seq, cur[p].create.text)
            IN /\ t_todos' = r.rows
               /\ todos_id_seq' = r.seq
               /\ Goto(p, [cur[p] EXCEPT !.row_id = r.row.id], "tc_insert_labels")
       ELSE /\ Return(p, cur[p], "insert_todo", SqlxError)
            /\ UNCHANGED <<t_todos, todos_id_seq>>
    /\ UNCHANGED <<t_labels, t_todo_labels, labels_id_seq, memvars, foldvars, concvars>>

TodoDbCreate_InsertLabels(p, ok) ==
    /\ pc[p] = "tc_insert_labels"
    /\ IF ok
       THEN /\ t_todo_labels' =
                insert_todo_labels(t_todo_labels, cur[p].row_id, cur[p].create.label_ids)
            /\ Goto(p, cur[p], "tc_commit")
       ELSE /\ Return(p, cur[p], "insert_labels", SqlxError)
            /\ UNCHANGED t_todo_labels
    /\ UNCHANGED <<t_todos, t_labels, todos_id_seq, labels_id_seq, memvars, foldvars, concvars>>

TodoDbCreate_Commit(p, ok) ==
    /\ pc[p] = "tc_commit"
    /\ IF ok THEN Goto(p, cur[p], "tc_find")
       ELSE Return(p, cur[p], "commit", SqlxError)
    /\ UNCHANGED <<t_todos, t_labels, t_todo_labels, todos_id_seq, labels_id_seq, memvars, foldvars, concvars>>

TodoDbCreate_Find(p, ok) ==
    /\ pc[p] = "tc_find"
    /\ IF ok
       THEN \E ord \in QueryOrders(FindKeys(t_todos, t_todo_labels, cur[p].row_id), FALSE) :
                Return(p, cur[p], "find",
                       TodoDb_find(t_todos, t_todo_labels, t_labels, cur[p].row_id, ord))
       ELSE Return(p, cur[p], "find", Unexpected)
    /\ UNCHANGED <<t_todos, t_labels, t_todo_labels, todos_id_seq, labels_id_seq, memvars, foldvars, concvars>>

TodoDbFind(p, id, ok) ==
    /\ pc[p] = "idle"
    /\ LET c == [IdleCur EXCEPT !.op = "db_find", !.id = id]
       IN IF ok
          THEN \E ord \in QueryOrders(FindKeys(t_todos, t_todo_labels, id), FALSE) :
                  Return(p, c, "find", TodoDb_find(t_todos, t_todo_labels, t_labels, id, ord))
          ELSE Return(p, c, "find", Unexpected)
    /\ UNCHANGED <<t_todos, t_labels, t_todo_labels, todos_id_seq, labels_id_seq, memvars, foldvars, concvars>>

TodoDbAll(p, ok) ==
    /\ pc[p] = "idle"
    /\ LET c == [IdleCur EXCEPT !.op = "db_all"]
       IN IF ok
          THEN \E ord \in QueryOrders(JoinKeys(t_todos, t_todo_labels), TRUE) :
                  Return(p, c, "select", TodoDb_all(t_todos, t_todo_labels, t_labels, ord))
          ELSE Return(p, c, "select", SqlxError)
    /\ UNCHANGED <<t_todos, t_labels, t_todo_labels, todos_id_seq, labels_id_seq, memvars, foldvars, concvars>>

\* update: begin; find(id); update todos; [delete from todo_labels; insert
\* into todo_labels;] commit; find(id)
TodoDbUpdate_Begin(p, id, payload, ok) ==
    /\ pc[p] = "idle"
    /\ LET c == [IdleCur EXCEPT !.op = "db_update", !.id = id, !.update = payload]
       IN IF ok THEN Goto(p, c, "tu_find_old")
          ELSE Return(p, c, "begin", SqlxError)
    /\ UNCHANGED <<t_todos, t_labels, t_todo_labels, todos_id_seq, labels_id_seq, memvars, foldvars, concvars>>

TodoDbUpdate_FindOld(p, ok) ==
    /\ pc[p] = "tu_find_old"
    /\ IF ok
       THEN \E ord \in QueryOrders(FindKeys(t_todos, t_todo_labels, cur[p].id), FALSE) :
              LET r == TodoDb_find(t_todos, t_todo_labels, t_labels, cur[p].id, ord)
              IN IF r.kind = "Ok"
                 THEN Goto(p, [cur[p] EXCEPT !.old_todo = r.todos[1]], "tu_update")
                 ELSE Return(p, cur[p], "find_old", r)
       ELSE Return(p, cur[p], "find_old", Unexpected)
    /\ UNCHANGED <<t_todos, t_labels, t_todo_labels, todos_id_seq, labels_id_seq, memvars, foldvars, concvars>>

TodoDbUpdate_UpdateTodo(p, ok) ==
    /\ pc[p] = "tu_update"
    /\ LET c == cur[p]
           text == IF c.update.text = None THEN c.old_todo.text ELSE c.update.text[1]
           completed == IF c.update.completed = None THEN c.old_todo.completed
                        ELSE c.update.completed[1]
       IN IF ok /\ (\E r \in t_todos : r.id = c.id)
          THEN /\ t_todos' = update_todo(t_todos, c.id, text, completed)
               /\ Goto(p, c, IF c.update.label_ids = None THEN "tu_commit"
                             ELSE "tu_delete_labels")
          ELSE /\ Return(p, c, "update_todo", SqlxError)
               /\ UNCHANGED t_todos
    /\ UNCHANGED <<t_labels, t_todo_labels, todos_id_seq, labels_id_seq, memvars, foldvars, concvars>>

TodoDbUpdate_DeleteLabels(p, ok) ==
    /\ pc[p] = "tu_delete_labels"
    /\ IF ok
       THEN /\ t_todo_labels' = delete_todo_labels(t_todo_labels, cur[p].id)
            /\ Goto(p, cur[p], "tu_insert_labels")
       ELSE /\ Return(p, cur[p], "delete_labels", SqlxError)
            /\ UNCHANGED t_todo_labels
    /\ UNCHANGED <<t_todos, t_labels, todos_id_seq, labels_id_seq, memvars, foldvars, concvars>>

TodoDbUpdate_InsertLabels(p, ok) ==
    /\ pc[p] = "tu_insert_labels"
    /\ IF ok
       THEN /\ t_todo_labels' =
                insert_todo_labels(t_todo_labels, cur[p].id, cur[p].update.label_ids[1])
            /\ Goto(p, cur[p], "tu_commit")
       ELSE /\ Return(p, cur[p], "insert_labels", SqlxError)
            /\ UNCHANGED t_todo_labels
    /\ UNCHANGED <<t_todos, t_labels, todos_id_seq, labels_id_seq, memvars, foldvars, concvars>>

TodoDbUpdate_Commit(p, ok) ==
    /\ pc[p] = "tu_commit"
    /\ IF ok THEN Goto(p, cur[p], "tu_find")
       ELSE Return(p, cur[p], "commit", SqlxError)
    /\ UNCHANGED <<t_todos, t_labels, t_todo_labels, todos_id_seq, labels_id_seq, memvars, foldvars, concvars>>

TodoDbUpdate_Find(p, ok) ==
    /\ pc[p] = "tu_find"
    /\ IF ok
       THEN \E ord \in QueryOrders(FindKeys(t_todos, t_todo_labels, cur[p].id), FALSE) :
                Return(p, cur[p], "find",
                       TodoDb_find(t_todos, t_todo_labels, t_labels, cur[p].id, ord))
       ELSE Return(p, cur[p], "find", Unexpected)
    /\ UNCHANGED <<t_todos, t_labels, t_todo_labels, todos_id_seq, labels_id_seq, memvars, foldvars, concvars>>

\* delete: begin; delete from todo_labels; delete from todos; commit.
\* A DELETE run with execute() that matches no row is a success with
\* rows_affected = 0, never sqlx::Error::RowNotFound.
TodoDbDelete_Begin(p, id, ok) ==
    /\ pc[p] = "idle"
    /\ LET c == [IdleCur EXCEPT !.op = "db_delete", !.id = id]
       IN IF ok THEN Goto(p, c, "td_delete_labels")
          ELSE Return(p, c, "begin", SqlxError)
    /\ UNCHANGED <<t_todos, t_labels, t_todo_labels, todos_id_seq, labels_id_seq, memvars, foldvars, concvars>>

TodoDbDelete_DeleteLabels(p, ok) ==
    /\ pc[p] = "td_delete_labels"
    /\ IF ok
       THEN /\ t_todo_labels' = delete_todo_labels(t_todo_labels, cur[p].id)
            /\ Goto(p, cur[p], "td_delete_todo")
       ELSE /\ Return(p, cur[p], "delete_labels", Unexpected)
            /\ UNCHANGED t_todo_labels
    /\ UNCHANGED <<t_todos, t_labels, todos_id_seq, labels_id_seq, memvars, foldvars, concvars>>

TodoDbDelete_DeleteTodo(p, ok) ==
    /\ pc[p] = "td_delete_todo"
    /\ IF ok
       THEN /\ t_todos' = delete_todo(t_todos, cur[p].id)
            /\ Goto(p, cur[p], "td_commit")
       ELSE /\ Return(p, cur[p], "delete_todo", Unexpected)
            /\ UNCHANGED t_todos
    /\ UNCHANGED <<t_labels, t_todo_labels, todos_id_seq, labels_id_seq, memvars, foldvars, concvars>>

TodoDbDelete_Commit(p, ok) ==
    /\ pc[p] = "td_commit"
    /\ IF ok THEN Return(p, cur[p], "return", OkUnit)
       ELSE Return(p, cur[p], "commit", SqlxError)
    /\ UNCHANGED <<t_todos, t_labels, t_todo_labels, todos_id_seq, labels_id_seq, memvars, foldvars, concvars>>

\* One caller at a time: client 1 issues the calls one after the other.
NextLabelDbSeq ==
    \E ok \in BOOLEAN :
        \/ \E name \in Names : LabelDbCreate_Select(1, name, ok)
        \/ LabelDbCreate_Insert(1, ok)
        \/ LabelDbAll(1, ok)
        \/ \E id \in DbLabelIds : LabelDbDelete(1, id, ok)

SpecLabelDbSeq == InitDb /\ [][NextLabelDbSeq]_vars

NextTodoDbSeq ==
    \E ok \in BOOLEAN :
        \/ \E payload \in CreateTodo : TodoDbCreate_Begin(1, payload, ok)
        \/ TodoDbCreate_InsertTodo(1, ok)
        \/ TodoDbCreate_InsertLabels(1, ok)
        \/ TodoDbCreate_Commit(1, ok)
        \/ TodoDbCreate_Find(1, ok)
        \/ \E id \in DbTodoIds : TodoDbFind(1, id, ok)
        \/ TodoDbAll(1, ok)
        \/ \E id \in DbTodoIds, payload \in UpdateTodo : TodoDbUpdate_Begin(1, id, payload, ok)
        \/ TodoDbUpdate_FindOld(1, ok)
        \/ TodoDbUpdate_UpdateTodo(1, ok)
        \/ TodoDbUpdate_DeleteLabels(1, ok)
        \/ TodoDbUpdate_InsertLabels(1, ok)
        \/ TodoDbUpdate_Commit(1, ok)
        \/ TodoDbUpdate_Find(1, ok)
        \/ \E id \in DbTodoIds : TodoDbDelete_Begin(1, id, ok)
        \/ TodoDbDelete_DeleteLabels(1, ok)
        \/ TodoDbDelete_DeleteTodo(1, ok)
        \/ TodoDbDelete_Commit(1, ok)

SpecTodoDbSeq == InitTodoDb /\ [][NextTodoDbSeq]_vars

\* One caller that creates, finds and deletes todos.
NextTodoDbDelete ==
    \E ok \in BOOLEAN :
        \/ \E payload \in CreateTodo : TodoDbCreate_Begin(1, payload, ok)
        \/ TodoDbCreate_InsertTodo(1, ok)
        \/ TodoDbCreate_InsertLabels(1, ok)
        \/ TodoDbCreate_Commit(1, ok)
        \/ TodoDbCreate_Find(1, ok)
        \/ \E id \in DbTodoIds : TodoDbFind(1, id, ok)
        \/ \E id \in DbTodoIds : TodoDbDelete_Begin(1, id, ok)
        \/ TodoDbDelete_DeleteLabels(1, ok)
        \/ TodoDbDelete_DeleteTodo(1, ok)
        \/ TodoDbDelete_Commit(1, ok)

SpecTodoDbDelete == InitTodoDb /\ [][NextTodoDbDelete]_vars

\* One caller that creates todos with no, one or two labels, deletes todos
\* and lists them.
ListedCreates == [text : {"a"}, label_ids : {<<>>, <<1>>, <<2, 1>>}]

NextTodoDbAll ==
    \E ok \in BOOLEAN :
        \/ \E payload \in ListedCreates : TodoDbCreate_Begin(1, payload, ok)
        \/ TodoDbCreate_InsertTodo(1, ok)
        \/ TodoDbCreate_InsertLabels(1, ok)
        \/ TodoDbCreate_Commit(1, ok)
        \/ TodoDbCreate_Find(1, ok)
        \/ TodoDbAll(1, ok)
        \/ \E id \in DbTodoIds : TodoDbDelete_Begin(1, id, ok)
        \/ TodoDbDelete_DeleteLabels(1, ok)
        \/ TodoDbDelete_DeleteTodo(1, ok)
        \/ TodoDbDelete_Commit(1, ok)

SpecTodoDbAll == InitTodoDb /\ [][NextTodoDbAll]_vars

\* ========================================================================
\* The relational repositories under concurrent callers.  Every statement
\* of a call runs on the pool in autocommit, so the statements of the calls
\* of different clients interleave one by one.
\* ========================================================================
\* concurrent label creates
NextLabelDbRace ==
    \E p \in Clients, ok \in BOOLEAN :
        \/ \E name \in Names : LabelDbCreate_Select(p, name, ok)
        \/ LabelDbCreate_Insert(p, ok)

SpecLabelDbRace == InitDb /\ [][NextLabelDbRace]_vars

\* concurrent todo creates, updates and finds
DbConcCreates == {[text |-> "a", label_ids |-> <<1>>]}
DbConcUpdates ==
    {[text |-> Some("b"), completed |-> None, label_ids |-> None],
     [text |-> None, completed |-> Some(TRUE), label_ids |-> None],
     [text |-> Some("b"), completed |-> None, label_ids |-> Some(<<>>)]}
DbConcIds == {1}

NextTodoDbConc ==
    \E p \in Clients, ok \in BOOLEAN :
        \/ /\ todos_id_seq
                + Cardinality({q \in Clients : pc[q] = "tc_insert_todo"}) < MaxDbTodos
           /\ \E payload \in DbConcCreates : TodoDbCreate_Begin(p, payload, ok)
        \/ TodoDbCreate_InsertTodo(p, ok)
        \/ TodoDbCreate_InsertLabels(p, ok)
        \/ TodoDbCreate_Commit(p, ok)
        \/ TodoDbCreate_Find(p, ok)
        \/ \E id \in DbConcIds : TodoDbFind(p, id, ok)
        \/ \E id \in DbConcIds, payload \in DbConcUpdates :
              TodoDbUpdate_Begin(p, id, payload, ok)
        \/ TodoDbUpdate_FindOld(p, ok)
        \/ TodoDbUpdate_UpdateTodo(p, ok)
        \/ TodoDbUpdate_DeleteLabels(p, ok)
        \/ TodoDbUpdate_InsertLabels(p, ok)
        \/ TodoDbUpdate_Commit(p, ok)
        \/ TodoDbUpdate_Find(p, ok)

SpecTodoDbConc == InitTodoDb /\ [][NextTodoDbConc]_vars

\* ========================================================================
\* The in-memory repositories under concurrent callers
\*
\* A call first takes the guard of its repository (write_score_ref /
\* read_score_ref, write_store_ref / read_store_ref), blocking while it is
\* not available, then runs its body and drops the guard when it returns.
\* The reads and writes of the store in a body are separate steps.
\* ========================================================================
ConcCreates == {[text |-> "a", label_ids |-> <<1>>]}
ConcUpdates == {[text |-> Some("b"), completed |-> None, label_ids |-> None]}
ConcIds == {1}
ConcNames == {"work"}

TodoConcCalls ==
    {[IdleCur EXCEPT !.op = "create", !.create = c] : c \in ConcCreates}
    \cup {[IdleCur EXCEPT !.op = "find", !.id = id] : id \in ConcIds}
    \cup {[IdleCur EXCEPT !.op = "all"]}
    \cup {[IdleCur EXCEPT !.op = "update", !.id = x[1], !.update = x[2]] :
            x \in ConcIds \X ConcUpdates}
    \cup {[IdleCur EXCEPT !.op = "delete", !.id = id] : id \in ConcIds}

LabelConcCalls ==
    {[IdleCur EXCEPT !.op = "label_create", !.name = n] : n \in ConcNames}
    \cup {[IdleCur EXCEPT !.op = "label_all"]}
    \cup {[IdleCur EXCEPT !.op = "label_delete", !.id = id] : id \in ConcIds}

IsWrite(op) == op \in {"create", "update", "delete", "label_create", "label_delete"}
RepoOf(op) == IF op \in {"label_create", "label_all", "label_delete"} THEN "label" ELSE "todo"

FirstPc(op) ==
    CASE op = "create" -> "m_create_len"
      [] op = "find" -> "m_find"
      [] op = "all" -> "m_all"
      [] op = "update" -> "m_update_get"
      [] op = "delete" -> "m_delete"
      [] op = "label_create" -> "m_label_create"
      [] op = "label_all" -> "m_label_all"
      [] op = "label_delete" -> "m_label_delete"

InFlight(op) == Cardinality({q \in Clients : pc[q] # "idle" /\ cur[q].op = op})

\* the Todo store after the call c has run on st with no other call around
SeqStore(st, ls, c) ==
    CASE c.op = "create" -> TodoMem_create(st, ls, c.create).store
      [] c.op = "update" -> TodoMem_update(st, ls, c.id, c.update).store
      [] c.op = "delete" -> TodoMem_delete(st, c.id).store
      [] OTHER -> st

\* a caller issues the call c
MemInvoke(p, c) ==
    /\ pc[p] = "idle"
    /\ c.op = "create" => len(store) + InFlight("create") < MaxTodos
    /\ c.op = "label_create" => len(data) + InFlight("label_create") < MaxLabels
    /\ Goto(p, c, "m_wait")
    /\ UNCHANGED <<memvars, t_todos, t_labels, t_todo_labels, todos_id_seq,
                   labels_id_seq, foldvars, concvars>>

\* self.store.write().unwrap() / self.store.read().unwrap() returns
MemAcquire(p) ==
    /\ pc[p] = "m_wait"
    /\ LET r == RepoOf(cur[p].op)
       IN IF IsWrite(cur[p].op)
          THEN /\ CanWrite(guard[r])
               /\ guard' = [guard EXCEPT ![r] = lock_write(@, p)]
          ELSE /\ CanRead(guard[r])
               /\ guard' = [guard EXCEPT ![r] = lock_read(@, p)]
    /\ Goto(p, cur[p], FirstPc(cur[p].op))
    /\ UNCHANGED <<memvars, t_todos, t_labels, t_todo_labels, todos_id_seq,
                   labels_id_seq, foldvars, lin>>

\* the call returns res: its guard is dropped
MemReturn(p, res) ==
    /\ pc' = [pc EXCEPT ![p] = "idle"]
    /\ cur' = [cur EXCEPT ![p] = IdleCur]
    /\ last' = Call(cur[p].op, cur[p].id, cur[p].create, cur[p].update, cur[p].name, res)
    /\ guard' = [guard EXCEPT ![RepoOf(cur[p].op)] = drop(@, p)]
    /\ lin' = SeqStore(lin, labels, cur[p])

MemReturn_leak(p, res) ==
    /\ pc' = [pc EXCEPT ![p] = "idle"]
    /\ cur' = [cur EXCEPT ![p] = IdleCur]
    /\ last' = Call(cur[p].op, cur[p].id, cur[p].create, cur[p].update, cur[p].name, res)
    /\ guard' = guard
    /\ lin' = SeqStore(lin, labels, cur[p])

next_id_len(st) == len(st)

next_id(st) == len(st) + 1

MemCreate_Len(p) ==
    /\ pc[p] = "m_create_len"
    /\ Goto(p, [cur[p] EXCEPT !.row_id = next_id(store)], "m_create_insert")
    /\ UNCHANGED <<memvars, t_todos, t_labels, t_todo_labels, todos_id_seq,
                   labels_id_seq, foldvars, concvars>>

MemCreate_Insert(p) ==
    /\ pc[p] = "m_create_insert"
    /\ LET id == cur[p].row_id
           todo == TodoEntity_new(id, cur[p].create.text,
                                  resolve_labels(labels, cur[p].create.label_ids))
       IN /\ store' = insert(store, id, todo)
          /\ issued' = issued \cup {id}
          /\ MemReturn(p, OkTodo(todo))
    /\ UNCHANGED <<labels, data, t_todos, t_labels, t_todo_labels, todos_id_seq,
                   labels_id_seq, foldvars>>

MemFind(p) ==
    /\ pc[p] = "m_find"
    /\ MemReturn(p, TodoMem_find(store, cur[p].id))
    /\ UNCHANGED <<store, labels, data, issued, t_todos, t_labels, t_todo_labels, todos_id_seq,
                   labels_id_seq, foldvars>>

MemAll(p) ==
    /\ pc[p] = "m_all"
    /\ \E ord \in Orderings(store) : MemReturn(p, TodoMem_all(store, ord))
    /\ UNCHANGED <<store, labels, data, issued, t_todos, t_labels, t_todo_labels, todos_id_seq,
                   labels_id_seq, foldvars>>

\* store.get(&id).context(NotFound(id))?
MemUpdate_Get_leak(p) ==
    /\ pc[p] = "m_update_get"
    /\ IF cur[p].id \in DOMAIN store
       THEN /\ Goto(p, [cur[p] EXCEPT !.old_todo = store[cur[p].id]], "m_update_insert")
            /\ UNCHANGED <<last, concvars>>
       ELSE MemReturn_leak(p, NotFound(cur[p].id))
    /\ UNCHANGED <<store, labels, data, issued, t_todos, t_labels, t_todo_labels, todos_id_seq,
                   labels_id_seq, foldvars>>

MemUpdate_Get(p) ==
    /\ pc[p] = "m_update_get"
    /\ IF cur[p].id \in DOMAIN store
       THEN /\ Goto(p, [cur[p] EXCEPT !.old_todo = store[cur[p].id]], "m_update_insert")
            /\ UNCHANGED <<last, concvars>>
       ELSE MemReturn(p, NotFound(cur[p].id))
    /\ UNCHANGED <<store, labels, data, issued, t_todos, t_labels, t_todo_labels, todos_id_seq,
                   labels_id_seq, foldvars>>

MemUpdate_Insert(p) ==
    /\ pc[p] = "m_update_insert"
    /\ LET c == cur[p]
           todo == c.old_todo
           new == [id |-> c.id,
                   text |-> IF c.update.text = None THEN todo.text ELSE c.update.text[1],
                   completed |-> IF c.update.completed = None THEN todo.completed
                                 ELSE c.update.completed[1],
                   labels |-> IF c.update.label_ids = None THEN todo.labels
                              ELSE resolve_labels(labels, c.update.label_ids[1])]
       IN /\ store' = insert(store, c.id, new)
          /\ MemReturn(p, OkTodo(new))
    /\ UNCHANGED <<labels, data, issued, t_todos, t_labels, t_todo_labels,
                   todos_id_seq, labels_id_seq, foldvars>>

MemDelete(p) ==
    /\ pc[p] = "m_delete"
    /\ LET r == TodoMem_delete(store, cur[p].id)
       IN /\ store' = r.store
          /\ MemReturn(p, r.res)
    /\ UNCHANGED <<labels, data, issued, t_todos, t_labels, t_todo_labels,
                   todos_id_seq, labels_id_seq, foldvars>>

MemLabelCreate(p) ==
    /\ pc[p] = "m_label_create"
    /\ LET r == LabelMem_create(data, cur[p].name)
       IN /\ data' = r.data
          /\ MemReturn(p, r.res)
    /\ UNCHANGED <<store, labels, issued, t_todos, t_labels, t_todo_labels,
                   todos_id_seq, labels_id_seq, foldvars>>

MemLabelAll(p) ==
    /\ pc[p] = "m_label_all"
    /\ \E ord \in Orderings(data) : MemReturn(p, LabelMem_all(data, ord))
    /\ UNCHANGED <<store, labels, data, issued, t_todos, t_labels, t_todo_labels, todos_id_seq,
                   labels_id_seq, foldvars>>

MemLabelDelete(p) ==
    /\ pc[p] = "m_label_delete"
    /\ LET r == LabelMem_delete(data, cur[p].id)
       IN /\ data' = r.data
          /\ MemReturn(p, r.res)
    /\ UNCHANGED <<store, labels, issued, t_todos, t_labels, t_todo_labels,
                   todos_id_seq, labels_id_seq, foldvars>>

\* what a client does once it has issued a call
MemStep(p) ==
    \/ MemCreate_Len(p)
    \/ MemCreate_Insert(p)
    \/ MemFind(p)
    \/ MemAll(p)
    \/ MemUpdate_Get(p)
    \/ MemUpdate_Insert(p)
    \/ MemDelete(p)
    \/ MemLabelCreate(p)
    \/ MemLabelAll(p)
    \/ MemLabelDelete(p)

\* concurrent callers of the in-memory Todo repository
NextTodoConc ==
    \E p \in Clients :
        \/ \E c \in TodoConcCalls : MemInvoke(p, c)
        \/ MemAcquire(p)
        \/ MemCreate_Len(p)
        \/ MemCreate_Insert(p)
        \/ MemFind(p)
        \/ MemAll(p)
        \/ MemUpdate_Get(p)
        \/ MemUpdate_Insert(p)
        \/ MemDelete(p)

SpecTodoConc == Init /\ [][NextTodoConc]_vars

\* concurrent callers that never delete
NextTodoConcCreate ==
    \E p \in Clients :
        \/ \E c \in {x \in TodoConcCalls : x.op # "delete"} : MemInvoke(p, c)
        \/ MemAcquire(p)
        \/ MemCreate_Len(p)
        \/ MemCreate_Insert(p)
        \/ MemFind(p)
        \/ MemAll(p)
        \/ MemUpdate_Get(p)
        \/ MemUpdate_Insert(p)

SpecTodoConcCreate == Init /\ [][NextTodoConcCreate]_vars

\* concurrent callers of both in-memory repositories
NextMemConc ==
    \E p \in Clients :
        \/ \E c \in TodoConcCalls \cup LabelConcCalls : MemInvoke(p, c)
        \/ MemAcquire(p)
        \/ MemStep(p)

\* Fair scheduling: a client that can take a step keeps running, and a
\* client blocked on a guard gets it when the guard stays available.  RwLock
\* promises no order among the threads that contend for it.
SpecMemConcFair ==
    /\ Init
    /\ [][NextMemConc]_vars
    /\ \A p \in Clients : WF_vars(MemStep(p)) /\ WF_vars(MemAcquire(p))

\* ========================================================================
\* The row aggregator fold_entities on its own: any rows, visited one by one
\* ========================================================================
FoldIds == 1..2
FoldLabelIds == {None, Some(1), Some(2)}
FoldLabelNames == {None, Some("work")}

FoldRows ==
    [id : FoldIds, text : Texts, completed : {FALSE},
     label_id : FoldLabelIds, label_name : FoldLabelNames]

FoldInputs == UNION {[1..k -> FoldRows] : k \in 0..MaxRows}

InitFold ==
    /\ store = EmptyMap
    /\ labels = <<>>
    /\ data = EmptyMap
    /\ issued = {}
    /\ last = Call("new", 0, NoCreate, NoUpdate, "", OkUnit)
    /\ t_todos = {}
    /\ t_labels = {}
    /\ t_todo_labels = <<>>
    /\ todos_id_seq = 0
    /\ labels_id_seq = 0
    /\ pc = [p \in Clients |-> "idle"]
    /\ cur = [p \in Clients |-> IdleCur]
    /\ f_rows \in FoldInputs
    /\ f_rest = f_rows
    /\ f_acc = <<>>
    /\ f_pc = "fold"
    /\ guard = FreeGuards
    /\ lin = EmptyMap

\* one run of the closure passed to fold
FoldRow ==
    /\ f_pc = "fold"
    /\ f_rest # <<>>
    /\ IF fold_panics(Head(f_rest))
       THEN /\ f_pc' = "panic"
            /\ UNCHANGED <<f_rest, f_acc>>
       ELSE /\ f_acc' = fold_step(f_acc, Head(f_rest))
            /\ f_rest' = Tail(f_rest)
            /\ f_pc' = "fold"
    /\ UNCHANGED <<f_rows, memvars, dbvars, concvars>>

\* the iterator is exhausted: fold returns the accumulator
FoldReturn ==
    /\ f_pc = "fold"
    /\ f_rest = <<>>
    /\ f_pc' = "done"
    /\ UNCHANGED <<f_rows, f_rest, f_acc, memvars, dbvars, concvars>>

NextFold == FoldRow \/ FoldReturn

SpecFold == InitFold /\ [][NextFold]_vars

\* ========================================================================
\* Properties of the in-memory repositories
\* ========================================================================
Range(f) == {f[x] : x \in DOMAIN f}

\* C1: every successful TodoRepositoryForMemory::create returns an id that is
\* strictly greater than every id returned by an earlier create (ids are
\* monotonic and never handed out twice).
C1_IdsNeverReused ==
    [][(last'.op = "create" /\ last'.res.kind = "Ok")
        => \A i \in issued : last'.res.todos[1].id > i]_vars

\* C2: round trip: in the state right after create(payload), find(returned.id)
\* returns an entity equal (id, text, completed, labels) to the one create
\* returned.
C2_CreateFindRoundTrip ==
    (last.op = "create")
        => /\ last.res.kind = "Ok"
           /\ Len(last.res.todos) = 1
           /\ TodoMem_find(store, last.res.todos[1].id) = last.res

C2_Witness ==
    /\ last.op = "create"
    /\ last.res.kind = "Ok"
    /\ last.res.todos[1].labels # <<>>
    /\ len(store) = 2

\* C3: update(T.id, U) on a stored todo T returns and stores an entity with
\* T's id in which every field absent from U keeps T's value and every field
\* present in U takes the supplied value (labels: the supplied ids resolved).
C3_PartialUpdate ==
    [][(last'.op = "update" /\ last'.id \in DOMAIN store)
        => LET T == store[last'.id]
               U == last'.update
               R == last'.res
           IN /\ R.kind = "Ok"
              /\ Len(R.todos) = 1
              /\ last'.id \in DOMAIN store'
              /\ store'[last'.id] = R.todos[1]
              /\ R.todos[1].id = T.id
              /\ R.todos[1].text = (IF U.text = None THEN T.text ELSE U.text[1])
              /\ R.todos[1].completed =
                    (IF U.completed = None THEN T.completed ELSE U.completed[1])
              /\ R.todos[1].labels =
                    (IF U.label_ids = None THEN T.labels
                     ELSE resolve_labels(labels, U.label_ids[1]))]_vars

C3_Witness ==
    /\ last.op = "update"
    /\ last.res.kind = "Ok"
    /\ last.update.text = None
    /\ last.update.completed = Some(TRUE)
    /\ last.update.label_ids = None
    /\ last.res.todos[1].text = "b"
    /\ last.res.todos[1].labels # <<>>
    /\ store[last.id] = last.res.todos[1]

\* C4: find, update and delete called with an id that is not in the store
\* fail with NotFound(id) and leave the store exactly as it was.
C4_NotFoundLeavesStore ==
    [][(last'.op \in {"find", "update", "delete"} /\ last'.id \notin DOMAIN store)
        => /\ last'.res = NotFound(last'.id)
           /\ store' = store]_vars

C4_Witness ==
    /\ last.op = "update"
    /\ last.res = NotFound(last.id)
    /\ last.update.text # None
    /\ len(store) = 1
    /\ last.id \notin DOMAIN store

\* C5: when delete(id) succeeds, id is absent from the resulting store, a
\* find(id) in that state fails with NotFound(id), and every other stored
\* todo is left unchanged.
C5_DeleteIsFinal ==
    [][(last'.op = "delete" /\ last'.res.kind = "Ok")
        => /\ last'.id \notin DOMAIN store'
           /\ TodoMem_find(store', last'.id) = NotFound(last'.id)
           /\ DOMAIN store' = (DOMAIN store) \ {last'.id}
           /\ \A k \in DOMAIN store' : store'[k] = store[k]]_vars

C5_Witness ==
    /\ last.op = "delete"
    /\ last.res.kind = "Ok"
    /\ len(store) = 1
    /\ last.id \notin DOMAIN store

\* the labels of the snapshot `snap` named by `ids`, one per id that has a
\* label, in the order of `ids`
RECURSIVE SnapshotLabels(_, _)
SnapshotLabels(snap, ids) ==
    IF ids = <<>> THEN <<>>
    ELSE LET hits == {k \in DOMAIN snap : snap[k].id = Head(ids)}
         IN (IF hits = {} THEN <<>>
             ELSE <<snap[CHOOSE k \in hits : \A j \in hits : k <= j]>>)
            \o SnapshotLabels(snap, Tail(ids))

\* C13: TodoRepositoryForMemory::create(payload) succeeds and returns, and
\* stores under the returned id, an entity with text = payload.text,
\* completed = false and labels = the labels of the fixed snapshot whose ids
\* occur in payload.label_ids, in the order of payload.label_ids; ids without
\* a snapshot label are dropped without an error.
C13_CreateResolvesLabels ==
    (last.op = "create")
        => /\ last.res.kind = "Ok"
           /\ Len(last.res.todos) = 1
           /\ LET E == last.res.todos[1]
              IN /\ E.text = last.create.text
                 /\ E.completed = FALSE
                 /\ E.labels = SnapshotLabels(labels, last.create.label_ids)
                 /\ E.id \in DOMAIN store
                 /\ store[E.id] = E

C13_Witness ==
    /\ last.op = "create"
    /\ last.create = [text |-> "b", label_ids |-> <<3, 1>>]
    /\ last.res.kind = "Ok"
    /\ last.res.todos[1].labels = <<Label_new(1, "work")>>
    /\ len(store) = 2
    /\ \E k \in DOMAIN store :
          store[k].labels = <<Label_new(1, "work"), Label_new(2, "home")>>

ClearLabels == [text |-> None, completed |-> None, label_ids |-> Some(<<>>)]

\* C14: update(id, {label_ids: Some([])}) on a stored todo, whatever labels
\* it has, returns and stores an entity with an empty label sequence, and the
\* same update applied once more returns the same entity and leaves the
\* store as it is.
C14_EmptyLabelClearing ==
    [][(last'.op = "update" /\ last'.update = ClearLabels /\ last'.id \in DOMAIN store)
        => /\ last'.res.kind = "Ok"
           /\ Len(last'.res.todos) = 1
           /\ last'.res.todos[1].labels = <<>>
           /\ last'.res.todos[1].id = last'.id
           /\ last'.id \in DOMAIN store'
           /\ store'[last'.id] = last'.res.todos[1]
           /\ LET again == TodoMem_update(store', labels', last'.id, ClearLabels)
              IN /\ again.res = last'.res
                 /\ again.store = store']_vars

C14_Witness ==
    /\ last.op = "update"
    /\ last.update = ClearLabels
    /\ last.res.kind = "Ok"
    /\ last.res.todos[1].labels = <<>>
    /\ last.res.todos[1].text = "b"
    /\ len(store) = 2
    /\ store[last.id] = last.res.todos[1]
    /\ \E k \in DOMAIN store :
          store[k].labels = <<Label_new(2, "home"), Label_new(1, "work")>>

\* C15: TodoRepositoryForMemory::all() succeeds, leaves the store unchanged
\* and returns a sequence that holds every stored entity exactly once and
\* nothing else (its length is the number of stored todos).
C15_AllReturnsStore ==
    [][(last'.op = "all")
        => /\ store' = store
           /\ last'.res.kind = "Ok"
           /\ Len(last'.res.todos) = len(store)
           /\ \A k \in DOMAIN store :
                Cardinality({i \in DOMAIN last'.res.todos : last'.res.todos[i] = store[k]}) = 1
           /\ \A i \in DOMAIN last'.res.todos : last'.res.todos[i] \in Range(store)]_vars

C15_Witness ==
    /\ last.op = "all"
    /\ last.res.kind = "Ok"
    /\ Len(last.res.todos) = 2
    /\ last.res.todos[1] = store[2]
    /\ last.res.todos[2] = store[1]
    /\ store[1].labels # <<>>

\* C16: LabelRepositoryForMemory::all() returns every stored label exactly
\* once, in ascending order of id (as LabelRepositoryForDb::all does with
\* ORDER BY ID ASC).
C16_LabelAllAscending ==
    (last.op = "label_all")
        => /\ last.res.kind = "Ok"
           /\ Len(last.res.labels) = len(data)
           /\ \A k \in DOMAIN data :
                Cardinality({i \in DOMAIN last.res.labels : last.res.labels[i] = data[k]}) = 1
           /\ \A i, j \in DOMAIN last.res.labels :
                i < j => last.res.labels[i].id < last.res.labels[j].id

\* C17: LabelRepositoryForMemory::delete(id) always succeeds; for an id that
\* is not in the store it leaves the store unchanged, so a second delete(id)
\* gives the same result and the same store as the first.
C17_LabelDeleteIdempotent ==
    [][(last'.op = "label_delete")
        => /\ last'.res = OkUnit
           /\ last'.id \notin DOMAIN data => data' = data
           /\ last'.id \notin DOMAIN data'
           /\ LabelMem_delete(data', last'.id) = [data |-> data', res |-> last'.res]]_vars

C17_Witness ==
    /\ last.op = "label_delete"
    /\ last.id = MaxLabels + 1
    /\ last.res = OkUnit
    /\ len(data) = 2

\* C18: LabelRepositoryForMemory::create adds exactly one label to the store
\* all() reads (the count grows by one, the new label has the given name,
\* the other labels stay), and delete of a stored id removes exactly one.
C18_LabelCountSteps ==
    [][/\ (last'.op = "label_create")
          => /\ len(data') = len(data) + 1
             /\ \A k \in DOMAIN data : k \in DOMAIN data' /\ data'[k] = data[k]
             /\ \E k \in (DOMAIN data') \ (DOMAIN data) : data'[k].name = last'.name
       /\ (last'.op = "label_delete" /\ last'.id \in DOMAIN data)
          => /\ len(data') = len(data) - 1
             /\ DOMAIN data' = (DOMAIN data) \ {last'.id}
             /\ \A k \in DOMAIN data' : data'[k] = data[k]]_vars

\* C28: TodoRepositoryForMemory::create never overwrites or removes a stored
\* todo: every todo stored before the create is stored unchanged after it,
\* the returned id was not a key of the store before, and the number of
\* stored todos grows by exactly one.
C28_CreateFrame ==
    [][(last'.op = "create" /\ last'.res.kind = "Ok")
        => /\ last'.res.todos[1].id \notin DOMAIN store
           /\ \A k \in DOMAIN store : k \in DOMAIN store' /\ store'[k] = store[k]
           /\ len(store') = len(store) + 1]_vars

\* C6: in every reachable state of the in-memory label store no two labels
\* share a name (create of an existing name fails with Duplicate).
C6_UniqueLabelNames ==
    \A i, j \in DOMAIN data : i # j => data[i].name # data[j].name

\* C8: every label embedded in an entity returned by the in-memory find or
\* all exists in the in-memory Label repository's store at the time of the
\* read.
C8_NoDanglingLabels ==
    (last.op \in {"find", "all"} /\ last.res.kind = "Ok")
        => \A i \in 1..Len(last.res.todos) :
             \A j \in 1..Len(last.res.todos[i].labels) :
                last.res.todos[i].labels[j] \in Range(data)

\* ========================================================================
\* Properties of the in-memory repositories under concurrent callers
\* ========================================================================
\* the client is inside the body of a call, between taking and dropping a guard
InBody(p) == pc[p] \notin {"idle", "m_wait"}
HoldsWrite(p, r) == InBody(p) /\ IsWrite(cur[p].op) /\ RepoOf(cur[p].op) = r
HoldsRead(p, r) == InBody(p) /\ ~IsWrite(cur[p].op) /\ RepoOf(cur[p].op) = r

\* C21: in every reachable state, while a create, update or delete (a
\* writer) is inside its body holding the guard of a repository, no other
\* call is inside a body on that repository; the guard records exactly the
\* calls inside their bodies; several find/all may be inside together.
C21_ReaderWriterExclusion ==
    \A r \in Repos :
        /\ \A p, q \in Clients :
              (HoldsWrite(p, r) /\ q # p) => ~(HoldsWrite(q, r) \/ HoldsRead(q, r))
        /\ \A p \in Clients :
              /\ HoldsWrite(p, r) <=> guard[r].writer = p
              /\ HoldsRead(p, r) <=> p \in guard[r].readers
        /\ guard[r].writer # 0 => guard[r].readers = {}

C21_Witness ==
    /\ pc[1] = "m_find"
    /\ pc[2] = "m_all"
    /\ guard["todo"] = [writer |-> 0, readers |-> {1, 2}]
    /\ len(store) = 2

\* the result of the call c run on the store st with no other call around
SeqResults(st, ls, c) ==
    CASE c.op = "create" -> {TodoMem_create(st, ls, c.create).res}
      [] c.op = "find" -> {TodoMem_find(st, c.id)}
      [] c.op = "all" -> {TodoMem_all(st, ord) : ord \in Orderings(st)}
      [] c.op = "update" -> {TodoMem_update(st, ls, c.id, c.update).res}
      [] c.op = "delete" -> {TodoMem_delete(st, c.id).res}

\* C22: the calls on the in-memory Todo store are linearizable in the order
\* of their returns: every call returns what it returns when run alone on
\* the store lin left by the calls that returned before it, and after its
\* return the store is the one that sequential run leaves.
C22_Linearizable ==
    [][\A p \in Clients :
         (InBody(p) /\ pc'[p] = "idle" /\ RepoOf(cur[p].op) = "todo")
            => /\ last'.res \in SeqResults(lin, labels, cur[p])
               /\ lin' = SeqStore(lin, labels, cur[p])
               /\ store' = lin']_vars

C22_Witness ==
    /\ last.op = "update"
    /\ last.res.kind = "Ok"
    /\ last.res.todos[1].text = "b"
    /\ pc[1] = "m_wait" /\ cur[1].op = "delete"
    /\ pc[2] = "idle"
    /\ len(store) = 2
    /\ store = lin

\* C23: every call drops its guard on every exit, the NotFound exits of
\* find, update and delete included: a guard is out only for a call that is
\* inside its body (all guards are free when no call is in progress), and
\* under fair scheduling every call that was issued, also one that blocks on
\* a guard, returns.
C23_GuardsReleased ==
    /\ [](\A r \in Repos :
            /\ guard[r].writer # 0 => HoldsWrite(guard[r].writer, r)
            /\ \A p \in guard[r].readers : HoldsRead(p, r))
    /\ \A p \in Clients : (pc[p] # "idle") ~> (pc[p] = "idle")

CanAcquire(p) ==
    IF IsWrite(cur[p].op) THEN guard[RepoOf(cur[p].op)] = FreeGuard
    ELSE guard[RepoOf(cur[p].op)].writer = 0

\* C23 (amended): a guard is out only for a call that is inside its body
\* (all guards are free when no call is in progress); under fair scheduling
\* every call that has taken its guard returns and drops it, on the NotFound
\* exits too; and a call is blocked only while another call is inside its
\* body on the same repository (no deadlock).
C23_GuardsReleasedNoDeadlock ==
    /\ [](\A r \in Repos :
            /\ guard[r].writer # 0 => HoldsWrite(guard[r].writer, r)
            /\ \A p \in guard[r].readers : HoldsRead(p, r))
    /\ [](\A p \in Clients :
            (pc[p] = "m_wait")
                => \/ CanAcquire(p)
                   \/ \E q \in Clients \ {p} :
                         InBody(q) /\ RepoOf(cur[q].op) = RepoOf(cur[p].op))
    /\ \A p \in Clients : InBody(p) ~> (pc[p] = "idle")

C23_Witness ==
    /\ last.op = "update"
    /\ last.res = NotFound(1)
    /\ guard = FreeGuards
    /\ pc[1] = "idle"
    /\ pc[2] = "m_wait" /\ cur[2].op = "delete"

\* C24: create takes id = (number of todos in the store while it holds the
\* write guard) + 1; with no delete ever issued the k-th create to take
\* effect returns id k, so the ids returned are 1, 2, .. without repetition,
\* however the creates of concurrent callers interleave.
C24_ConcurrentCreateIds ==
    [][\A p \in Clients :
         (pc[p] = "m_create_insert" /\ pc'[p] = "idle")
            => /\ last'.res.kind = "Ok"
               /\ last'.res.todos[1].id = len(store) + 1
               /\ last'.res.todos[1].id = Cardinality(issued) + 1
               /\ issued = 1..Cardinality(issued)
               /\ issued' = 1..(Cardinality(issued) + 1)]_vars

C24_Witness ==
    /\ last.op = "create"
    /\ last.res.todos[1].id = 1
    /\ issued = {1}
    /\ pc[1] = "idle"
    /\ pc[2] = "m_wait" /\ cur[2].op = "create"

\* ========================================================================
\* Properties of the relational repositories under concurrent callers
\* ========================================================================
\* C26: name uniqueness in LabelRepositoryForDb is a check-then-insert: the
\* INSERT of a create that passed the existence check adds a row of its
\* name whether or not a label of that name has been stored since the
\* check, so two concurrent creates of one name can both pass the check and
\* both insert: both succeed and the table holds two labels of that name
\* (the witness).
C26_CheckThenInsert ==
    [][\A p \in Clients :
        (pc[p] = "lc_insert" /\ pc'[p] = "idle")
          => \/ /\ cur'[p].res = SqlxError
                /\ t_labels' = t_labels
             \/ /\ cur'[p].res.kind = "Ok"
                /\ cur'[p].res.labels[1].name = cur[p].name
                /\ t_labels' = t_labels \cup {cur'[p].res.labels[1]}
                /\ Cardinality(t_labels') = Cardinality(t_labels) + 1]_vars

C26_Witness ==
    /\ pc[1] = "idle" /\ pc[2] = "idle"
    /\ cur[1].op = "db_label_create" /\ cur[2].op = "db_label_create"
    /\ cur[1].name = "work" /\ cur[2].name = "work"
    /\ cur[1].res.kind = "Ok" /\ cur[2].res.kind = "Ok"
    /\ cur[1].res.labels[1].id # cur[2].res.labels[1].id
    /\ Cardinality({l \in t_labels : l.name = "work"}) = 2

LabelIdsOf(t) == {t.labels[i].id : i \in 1..Len(t.labels)}

\* the only call in progress is the one of client q
OnlyCaller(q) == \A r \in Clients \ {q} : pc[r] = "idle"

\* what a reader may see of todo t while the create of client q is between
\* its statements: the todo with the labels of the payload
CreatedView(t, q) ==
    LabelIdsOf(t) = {cur[q].create.label_ids[i] : i \in 1..Len(cur[q].create.label_ids)}

\* what a reader may see of todo t while the update of client q is between
\* its statements: the todo before the update or the todo after it
UpdatedView(t, q) ==
    LET u == cur[q].update
        old == cur[q].old_todo
        text == IF u.text = None THEN old.text ELSE u.text[1]
        completed == IF u.completed = None THEN old.completed ELSE u.completed[1]
        ids == IF u.label_ids = None THEN LabelIdsOf(old)
               ELSE {u.label_ids[1][i] : i \in 1..Len(u.label_ids[1])}
    IN \/ t.text = old.text /\ t.completed = old.completed
          /\ LabelIdsOf(t) = LabelIdsOf(old)
       \/ t.text = text /\ t.completed = completed /\ LabelIdsOf(t) = ids

\* C25: a find that runs while one relational create or update is between
\* its statements never observes an intermediate state: it sees a created
\* todo with the label associations of its payload, and an updated todo
\* either as it was before the update or as it is after it.
C25_Isolation ==
    [][\A p \in Clients, q \in Clients :
        (/\ p # q
         /\ OnlyCaller(q)
         /\ pc'[p] = "idle" /\ cur'[p].op = "db_find" /\ cur'[p].res.kind = "Ok"
         /\ pc'[q] = pc[q] /\ cur'[q] = cur[q])
          => \A i \in 1..Len(cur'[p].res.todos) :
               LET t == cur'[p].res.todos[i]
               IN /\ (pc[q] \in {"tc_insert_labels", "tc_commit", "tc_find"}
                          /\ cur[q].row_id = t.id)
                       => CreatedView(t, q)
                  /\ (pc[q] \in {"tu_update", "tu_delete_labels", "tu_insert_labels",
                                   "tu_commit", "tu_find"}
                          /\ cur[q].id = t.id)
                       => UpdatedView(t, q)]_vars

\* C27: the UPDATE of a relational update whose payload leaves text (or
\* completed) absent does not change the stored text (or completed) of the
\* todo, also when another update of the same todo runs concurrently: of
\* two concurrent updates, one of the text and one of completed, neither
\* undoes the other (no lost update).
C27_NoLostUpdate ==
    [][\A p \in Clients :
        (pc[p] = "tu_update" /\ pc'[p] # "tu_update")
          => \A r \in t_todos, n \in t_todos' :
               (r.id = cur[p].id /\ n.id = cur[p].id)
                 => /\ cur[p].update.text = None => n.text = r.text
                    /\ cur[p].update.completed = None => n.completed = r.completed]_vars

\* ========================================================================
\* Properties of the relational repositories, one caller at a time
\* ========================================================================
HasName(tbl, name) == \E l \in tbl : l.name = name

\* C7: with no other create running, LabelRepositoryForDb::create(name) for a
\* name already in the labels table fails with Duplicate(id of an existing
\* label of that name) and inserts no row; for a name not in the table it
\* inserts exactly one row, of that name and with a fresh id, and returns it.
\* (A statement the backend fails ends the call with the sqlx error and
\* inserts nothing.)
C7_LabelDbCreate ==
    [][/\ (/\ pc[1] = "idle"
           /\ cur'[1].op = "db_label_create"
           /\ (pc'[1] = "lc_insert" \/ cur'[1].at = "select"))
          => /\ t_labels' = t_labels
             /\ HasName(t_labels, cur'[1].name)
                  => /\ pc'[1] = "idle"
                     /\ \/ cur'[1].res = SqlxError
                        \/ /\ cur'[1].res.kind = "Duplicate"
                           /\ \E l \in t_labels :
                                l.name = cur'[1].name /\ l.id = cur'[1].res.id
             /\ ~HasName(t_labels, cur'[1].name)
                  => \/ pc'[1] = "lc_insert"
                     \/ pc'[1] = "idle" /\ cur'[1].res = SqlxError
       /\ (pc[1] = "lc_insert")
          => /\ pc'[1] = "idle"
             /\ ~HasName(t_labels, cur[1].name)
             /\ \/ /\ cur'[1].res = SqlxError
                   /\ t_labels' = t_labels
                \/ /\ cur'[1].res.kind = "Ok"
                   /\ Len(cur'[1].res.labels) = 1
                   /\ cur'[1].res.labels[1].name = cur[1].name
                   /\ \A l \in t_labels : l.id # cur'[1].res.labels[1].id
                   /\ t_labels' = t_labels \cup {cur'[1].res.labels[1]}
                   /\ Cardinality(t_labels') = Cardinality(t_labels) + 1]_vars

C7_Witness ==
    /\ pc[1] = "idle"
    /\ cur[1].op = "db_label_create"
    /\ cur[1].res.kind = "Duplicate"
    /\ cur[1].name = "home"
    /\ \E l \in t_labels : l.name = "home" /\ l.id = cur[1].res.id
    /\ Cardinality(t_labels) = 2

\* C9: when a statement of the relational Todo create or update fails before
\* the sequence has committed, none of the effects of its earlier statements
\* remain: after a failed create neither the inserted todos row nor any of
\* its associations exists, and after a failed update the todo reads back
\* as it was before the update.
C9_FailureAtomicity ==
    [][/\ (pc[1] \in {"tc_insert_todo", "tc_insert_labels", "tc_commit"} /\ pc'[1] = "idle")
          => /\ \A r \in t_todos' : r.id # cur[1].row_id
             /\ \A i \in DOMAIN t_todo_labels' : t_todo_labels'[i].todo_id # cur[1].row_id
       /\ (/\ pc[1] \in {"tu_update", "tu_delete_labels", "tu_insert_labels", "tu_commit"}
           /\ pc'[1] = "idle")
          => \A ord \in QueryOrders(FindKeys(t_todos', t_todo_labels', cur[1].id), FALSE) :
                TodoDb_find(t_todos', t_todo_labels', t_labels', cur[1].id, ord)
                    = OkTodo(cur[1].old_todo)]_vars

\* C10: TodoRepositoryForDb::delete(id) for an id that has no row in todos
\* does not return success: when its DELETE on todos matches no row the call
\* ends there with NotFound(id) (or with the error of a failed statement).
C10_DbDeleteAbsentFails ==
    [][(pc[1] = "td_delete_todo" /\ \A r \in t_todos : r.id # cur[1].id)
        => /\ pc'[1] = "idle"
           /\ cur'[1].res \in {NotFound(cur[1].id), Unexpected}]_vars

\* ========================================================================
\* Properties of the row aggregator
\* ========================================================================
FirstPos(rows, id) ==
    CHOOSE k \in 1..Len(rows) : rows[k].id = id /\ \A j \in 1..(k - 1) : rows[j].id # id

\* C11: when fold_entities returns, its output holds exactly one entity per
\* distinct todo id of the input rows (rows of one id need not be
\* contiguous), no id twice, the entities in the order in which their ids
\* first occur in the input; empty input gives empty output.
C11_FoldEntityStructure ==
    (f_pc = "done")
        => /\ {f_acc[i].id : i \in DOMAIN f_acc} = {f_rows[k].id : k \in DOMAIN f_rows}
           /\ \A i, j \in DOMAIN f_acc : i # j => f_acc[i].id # f_acc[j].id
           /\ \A i, j \in DOMAIN f_acc :
                i < j => FirstPos(f_rows, f_acc[i].id) < FirstPos(f_rows, f_acc[j].id)
           /\ f_rows = <<>> => f_acc = <<>>

C11_Witness ==
    /\ f_pc = "done"
    /\ Len(f_rows) = 3
    /\ f_rows[1].id = 2
    /\ f_rows[2].id = 1
    /\ f_rows[3].id = 2
    /\ Len(f_acc) = 2
    /\ f_acc[1].id = 2
    /\ f_acc[2].id = 1

\* the (label_id, label_name) pairs of the rows of one todo id, in row order
RECURSIVE RowLabels(_, _)
RowLabels(rows, id) ==
    IF rows = <<>> THEN <<>>
    ELSE (IF Head(rows).id = id /\ Head(rows).label_id # None
          THEN <<[id |-> Head(rows).label_id[1], name |-> Head(rows).label_name[1]]>>
          ELSE <<>>) \o RowLabels(Tail(rows), id)

RECURSIVE CountLabels(_)
CountLabels(todos) ==
    IF todos = <<>> THEN 0 ELSE Len(Head(todos).labels) + CountLabels(Tail(todos))

\* C12: when fold_entities returns, the labels of each output entity are
\* exactly the (label_id, label_name) pairs of the input rows that carry the
\* entity's todo id and a non-null label_id, in row order and with repeated
\* pairs kept; the number of labels over all entities equals the number of
\* input rows with a non-null label_id.
C12_FoldLabelAggregation ==
    (f_pc = "done")
        => /\ \A i \in DOMAIN f_acc : f_acc[i].labels = RowLabels(f_rows, f_acc[i].id)
           /\ CountLabels(f_acc)
                = Cardinality({k \in DOMAIN f_rows : f_rows[k].label_id # None})

C12_Witness ==
    /\ f_pc = "done"
    /\ Len(f_rows) = 3
    /\ f_rows[1].id = 1 /\ f_rows[1].label_id = Some(1)
    /\ f_rows[2].id = 2 /\ f_rows[2].label_id = Some(2)
    /\ f_rows[3].id = 1 /\ f_rows[3].label_id = Some(1)
    /\ Len(f_acc) = 2
    /\ f_acc[1].labels = <<Label_new(1, "work"), Label_new(1, "work")>>
    /\ f_acc[2].labels = <<Label_new(2, "work")>>

\* C30: a row with a null label_id adds no label: when the fold visits such a
\* row for a todo id already in the accumulator, the accumulator stays as it
\* is (that entity's labels and scalar fields, every other entity); and when
\* the fold returns, an entity whose rows all have a null label_id has an
\* empty label sequence.
C30_NullLabelRow ==
    [][/\ (/\ f_pc = "fold"
           /\ f_rest # <<>>
           /\ Head(f_rest).label_id = None
           /\ \E i \in DOMAIN f_acc : f_acc[i].id = Head(f_rest).id)
          => (f_acc' = f_acc /\ f_pc' = "fold" /\ f_rest' = Tail(f_rest))
       /\ (f_pc = "fold" /\ f_rest # <<>> /\ Head(f_rest).label_id = None)
          => (f_pc' = "fold" /\ \A i \in DOMAIN f_acc' : Len(f_acc'[i].labels) =
                  IF i \in DOMAIN f_acc THEN Len(f_acc[i].labels) ELSE 0)
       /\ (f_pc' = "done")
          => \A i \in DOMAIN f_acc' :
                (\A k \in DOMAIN f_rows :
                    f_rows[k].id = f_acc'[i].id => f_rows[k].label_id = None)
                => f_acc'[i].labels = <<>>]_vars

C30_Witness ==
    /\ f_pc = "done"
    /\ Len(f_rows) = 3
    /\ f_rows[1].id = 1 /\ f_rows[1].label_id = Some(1) /\ f_rows[1].text = "a"
    /\ f_rows[2].id = 2 /\ f_rows[2].label_id = None /\ f_rows[2].label_name = None
    /\ f_rows[3].id = 1 /\ f_rows[3].label_id = None /\ f_rows[3].text = "b"
    /\ Len(f_acc) = 2
    /\ f_acc[1] = [id |-> 1, text |-> "a", completed |-> FALSE,
                   labels |-> <<Label_new(1, "work")>>]
    /\ f_acc[2].labels = <<>>

Malformed(row) == row.label_id # None /\ row.label_name = None

\* C20: fold_entities returns a result for every row sequence without a row
\* that has a label_id and no label_name (a row without label_id is accepted
\* whatever its label_name); it has no error result, and the only way it
\* does not return is the panic on a row with a label_id and no label_name.
C20_FoldNeverFails ==
    /\ f_pc \in {"idle", "fold", "done", "panic"}
    /\ (f_pc = "done")
         => /\ f_rest = <<>>
            /\ \A k \in DOMAIN f_rows : ~Malformed(f_rows[k])
    /\ (f_pc = "panic") => (f_rest # <<>> /\ Malformed(Head(f_rest)))
    /\ (\A k \in DOMAIN f_rows : ~Malformed(f_rows[k])) => f_pc # "panic"

C20_Witness ==
    /\ f_pc = "done"
    /\ Len(f_rows) = 3
    /\ f_rows[1].label_id = None /\ f_rows[1].label_name = Some("work")
    /\ f_rows[2].label_id = None /\ f_rows[2].label_name = None
    /\ f_rows[3].label_id = Some(2) /\ f_rows[3].label_name = Some("work")
    /\ Len(f_acc) = 1
    /\ f_acc[1].labels = <<Label_new(2, "work")>>

\* C19: when TodoRepositoryForDb::delete(id) returns Ok, the todos table has
\* no row with that id and todo_labels has no row with todo_id = id, and a
\* find(id) run next fails with NotFound(id).
C19_DbDeleteRemovesRows ==
    [][(/\ pc[1] = "td_commit"
        /\ pc'[1] = "idle"
        /\ cur'[1].res.kind = "Ok")
        => /\ cur'[1].op = "db_delete"
           /\ \A r \in t_todos' : r.id # cur'[1].id
           /\ \A i \in DOMAIN t_todo_labels' : t_todo_labels'[i].todo_id # cur'[1].id
           /\ \A ord \in QueryOrders(FindKeys(t_todos', t_todo_labels', cur'[1].id), FALSE) :
                TodoDb_find(t_todos', t_todo_labels', t_labels', cur'[1].id, ord)
                    = NotFound(cur'[1].id)]_vars

C19_Witness ==
    /\ pc[1] = "idle"
    /\ cur[1].op = "db_delete"
    /\ cur[1].res = OkUnit
    /\ cur[1].id = 2
    /\ todos_id_seq = 2
    /\ \A r \in t_todos : r.id # 2
    /\ \E r \in t_todos : r.id = 1
    /\ t_todo_labels # <<>>

\* C29: TodoRepositoryForDb::all() returns the todos of the table, each once,
\* in strictly descending order of id: the first element has the greatest
\* id.
C29_DbAllDescending ==
    (pc[1] = "idle" /\ cur[1].op = "db_all" /\ cur[1].res.kind = "Ok")
        => LET R == cur[1].res.todos
           IN /\ \A i, j \in DOMAIN R : i < j => R[i].id > R[j].id
              /\ {R[i].id : i \in DOMAIN R} = {r.id : r \in t_todos}
              /\ R # <<>> => \A r \in t_todos : R[1].id >= r.id

C29_Witness ==
    /\ pc[1] = "idle"
    /\ cur[1].op = "db_all"
    /\ cur[1].res.kind = "Ok"
    /\ Len(cur[1].res.todos) = 2
    /\ cur[1].res.todos[1].id = 2
    /\ cur[1].res.todos[1].labels = <<Label_new(2, "home"), Label_new(1, "work")>>
    /\ cur[1].res.todos[2].id = 1
    /\ Len(t_todo_labels) = 3

TypeOK ==
    /\ DOMAIN store \subseteq TodoIds
    /\ \A k \in DOMAIN store : store[k].id = k
    /\ DOMAIN data \subseteq LabelKeys
====
